---- MODULE Spec2Model ----
(***************************************************************************)
(* A model of the two C programs of the repository:                        *)
(*   src/c/xtdb_test.c  the conformance test runner and its 15 cases       *)
(*   src/c/trades.c     the trade insertion utility                        *)
(* The server and libpq are the environment: every statement may succeed   *)
(* or fail, every row count and cell content is the server's choice.       *)
(***************************************************************************)
EXTENDS Integers, Sequences, FiniteSets, TLC

VARIABLES
  \* ---- xtdb_test.c: main and the test framework
  pc,              \* "start" | "running" | "finishing" | "exited" | "killed" | "crashed"
  conn,            \* the PGconn of main: "none" | "open" | "finished"
  finish_count,    \* number of PQfinish calls
  cur,             \* index of the case RUN_TEST is running
  pos,             \* position in that case's body
  tests_passed,
  tests_failed,
  exit_status,     \* value returned by main, -1 while it has not returned
  invoked,         \* the cases RUN_TEST has invoked, in order
  diag,            \* what the last "  FAIL: ..." line shows of the failure
  out,             \* the lines "Running test", "PASS", "FAIL" on stdout since the
                   \*   "Running test" line before the last one
  \* ---- xtdb_test.c: what a case holds
  res,             \* PQresultStatus of the case's current result, "none" before the first
  ntuples,         \* PQntuples of it
  live,            \* result handles obtained and not yet PQclear'ed
  setting,         \* the session's fallback_output_format: "default" | "transit"
  last_stmt,       \* kind of the last statement sent on the session
  stmt_failed,     \* a statement of the running case returned a non-success status
  inserted_count,
  fp,              \* the case's FILE pointer: "none" | "NULL" | "open"
  bytes_read,      \* what fread returned: "none" before it, "full" (file_size) or "short"
  bad,             \* the field the case's current result renders other than the
                   \*   case expects, "none" when every cell is as expected
  fp_open,         \* FILE handles fopen'ed and not yet fclose'd
  heap,            \* malloc'ed buffers not yet free'd
  copy_in,         \* the session is in COPY IN state
  result,          \* the int result of PQputCopyData / PQputCopyEnd
  \* ---- trades.c
  t_pc,            \* where main is: "args" | "connect" | "create" | "begin" | "iter" |
                   \*   "insert" | "rollback" | "commit" | "after_batch" | "query" |
                   \*   "leave" | "exited" | "aborted"
  global_conn,     \* "NULL" | "OK" | "BAD" (a PGconn whose PQstatus is not CONNECTION_OK)
  conn_finished,   \* number of PQfinish calls on the connection PQconnectdb returned
  shutdown_requested,
  t_i,             \* the i of insert_trades_batch
  sent,            \* the statements sent to the server, with the server's answer
  batch_ret,       \* what insert_trades_batch returned: "none" | "true" | "false"
  exit_code,       \* what main returned, -1 while it has not
  txn,             \* the server's transaction on the session: "idle" | "open"
  max_clears,      \* the largest number of PQclear calls any one result has seen
  \* ---- xtdb_test.c: get_clean_table
  now,             \* time(NULL)
  names,           \* the names get_clean_table has returned, in order
  \* ---- xtdb_test.c: the splitter loop of test_json_with_oid
  s_pc,            \* "scan" | "verify" | "returned" | "crashed"
  file_content,    \* the bytes of the buffer the loop has read, file_content[0..i-1]
  brace_count,
  obj_start,
  in_string,
  escape_next,
  json_objects,    \* the spans <<obj_start, obj_len>> copied to json_object, in order
  \* ---- xtdb_test.c: the transit text encoder
  e_pc,            \* "args" | "string_built" | "json_built"
  pairs,           \* the key/value pairs of the record to encode, in order
  buf,             \* the bytes the encoder has written to buf
  buf_size

runnerVars == <<pc, conn, finish_count, cur, pos, tests_passed, tests_failed,
                exit_status, invoked, out, diag, res, ntuples, live, setting, last_stmt,
                stmt_failed, inserted_count, fp, bytes_read, bad, fp_open, heap,
                copy_in, result>>

tradeVars == <<t_pc, global_conn, conn_finished, shutdown_requested, t_i, sent,
               batch_ret, exit_code, txn, max_clears>>

namerVars == <<now, names>>

splitVars == <<s_pc, file_content, brace_count, obj_start, in_string, escape_next,
               json_objects>>

encVars == <<e_pc, pairs, buf, buf_size>>

vars == <<runnerVars, tradeVars, namerVars, splitVars, encVars>>

notRunner == <<tradeVars, namerVars, splitVars, encVars>>
notTrades == <<runnerVars, namerVars, splitVars, encVars>>
notNamer == <<runnerVars, tradeVars, splitVars, encVars>>
notEncoder == <<runnerVars, tradeVars, namerVars, splitVars>>

-----------------------------------------------------------------------------
(* Bounds of the model *)

\* largest row count the server returns for a SELECT
MaxRows == 3
\* largest number of records a fixture file holds
MaxRecords == 4

-----------------------------------------------------------------------------
(* xtdb_test.c: the bodies of the cases, one step per statement of the C    *)
(* function that calls libpq, stdio, malloc or an ASSERT macro.             *)

\* a step: its kind, its argument, and for an assertion on a cell the field of
\* the record the cell renders
St(o, x) == [op |-> o, a |-> x, f |-> "-"]
Times(s, n) == [k \in 1..n |-> s]

\* PQexec / PQexecParams of a statement of kind k
X(k) == <<St("exec", k)>>
\* ASSERT(PQresultStatus(res) == s, ...)
AS(s) == <<St("assert_status", s)>>
\* ASSERT / ASSERT_EQ_INT on PQntuples(res)
AN(n) == <<St("assert_ntuples", n)>>
\* assertions on cells PQgetvalue(res, r, _) (ASSERT_EQ_STR, or ASSERT on
\* strstr), one for each of the fields fs
AV(r, fs) == [k \in 1..Len(fs) |-> [op |-> "assert_cell", a |-> r, f |-> fs[k]]]
\* ASSERT(PQgetvalue(res, r, _) != NULL, ...)
ANN(r) == <<St("assert_notnull", r)>>
\* PQclear(res)
CL == <<St("clear", 0)>>
\* if (PQresultStatus(set_res) == PGRES_COMMAND_OK) PQclear(set_res)
CLOK == <<St("clear_if_ok", 0)>>
PASS == <<St("pass", 0)>>
\* an ASSERT on a buffer the case built itself
ALOCAL(n) == Times(St("assert_local", 0), n)
FOPEN == <<St("fopen", 0), St("assert_fp", 0)>>
FCLOSE == <<St("fclose", 0)>>
MALLOC == <<St("malloc", 0)>>
FREE == <<St("free", 0)>>
\* ASSERT(bytes_read == file_size, ...)
AREAD == <<St("assert_read", 0)>>
\* ASSERT_EQ_INT(inserted_count, n, ...)
ACOUNT(n) == <<St("assert_count", n)>>
\* the load loop: for each record of the fixture, the body, then inserted_count++
LOOP(body) == <<St("loop_head", Len(body) + 2)>> \o body \o <<St("loop_back", Len(body) + 1)>>
\* result = PQputCopyData(...); ASSERT(result == 1, ...)
PUTDATA == <<St("putcopydata", 0), St("assert_result", 0)>>
\* result = PQputCopyEnd(...); ASSERT(result == 1, ...)
PUTEND == <<St("putcopyend", 0), St("assert_result", 0)>>
\* res = PQgetResult(conn)
GETRES == <<St("getresult", 0)>>

\* ASSERT(strstr(record, "true") != NULL || strstr(record, "t") != NULL, ...):
\* a record that holds alice's name, or the word metadata, holds a "t" whatever
\* the field active is, so no single field decides this assertion
AnyT == "any t"

InsertOk == X("insert") \o AS("PGRES_COMMAND_OK") \o CL

test_connection ==
  X("select1") \o AS("PGRES_TUPLES_OK") \o AN(1) \o AV(0, <<"test">>) \o CL \o PASS

test_insert_and_query ==
  InsertOk \o X("select") \o AS("PGRES_TUPLES_OK") \o AN(2)
  \o AV(0, <<"_id", "value">>) \o AV(1, <<"_id", "value">>) \o CL \o PASS

test_where_clause ==
  InsertOk \o X("select") \o AS("PGRES_TUPLES_OK") \o AN(2) \o CL \o PASS

test_count_query ==
  InsertOk \o X("count") \o AS("PGRES_TUPLES_OK") \o AV(0, <<"count">>) \o CL \o PASS

test_parameterized_query ==
  InsertOk \o X("select") \o AS("PGRES_TUPLES_OK") \o AV(0, <<"name", "age">>) \o CL \o PASS

test_json_records ==
  InsertOk \o X("select") \o AS("PGRES_TUPLES_OK")
  \o AV(0, <<"_id", "name", "age", "active">>) \o CL \o PASS

test_load_sample_json ==
  InsertOk \o InsertOk \o InsertOk
  \o X("select") \o AS("PGRES_TUPLES_OK") \o AN(3) \o AV(0, <<"_id", "name">>) \o CL \o PASS

\* the verification of alice's full field set and of the total count
VerifyAlice ==
  X("select") \o AS("PGRES_TUPLES_OK") \o AN(1)
  \o AV(0, <<"_id", "name", "age", "active", "email", "salary">>)
  \o ANN(0) \o AV(0, <<"tags", "tags">>)
  \o ANN(0) \o AV(0, <<"metadata", "metadata", "metadata">>) \o CL
  \o X("count") \o AS("PGRES_TUPLES_OK") \o AV(0, <<"count">>) \o CL

test_json_with_oid ==
  FOPEN \o MALLOC \o FCLOSE \o LOOP(InsertOk) \o FREE \o ACOUNT(3)
  \o VerifyAlice \o PASS

test_transit_with_oid ==
  X("set") \o AS("PGRES_COMMAND_OK") \o CL
  \o FOPEN \o LOOP(InsertOk) \o FCLOSE \o ACOUNT(3)
  \o VerifyAlice
  \o X("reset") \o CLOK \o PASS

test_transit_nest_one_full_record ==
  X("set") \o AS("PGRES_COMMAND_OK") \o CL
  \o FOPEN \o LOOP(InsertOk) \o FCLOSE \o ACOUNT(3)
  \o X("nest_one") \o AS("PGRES_TUPLES_OK") \o AN(1) \o ANN(0)
  \o AV(0, <<"_id", "name", "age", AnyT, "email", "salary", "tags", "tags",
             "metadata", "metadata", "metadata">>) \o CL
  \o X("reset") \o CLOK \o PASS

test_nested_data_roundtrip ==
  InsertOk \o X("select") \o AS("PGRES_TUPLES_OK") \o AN(1)
  \o AV(0, <<"simple_array", "simple_array", "simple_array",
             "string_array", "string_array", "string_array",
             "nested_object", "nested_object", "nested_object",
             "array_of_objects", "array_of_objects", "array_of_objects">>)
  \o CL \o PASS

test_transit_json_format ==
  ALOCAL(1) \o InsertOk \o X("select") \o AS("PGRES_TUPLES_OK")
  \o AV(0, <<"_id", "name">>) \o CL \o PASS

test_transit_json_encoding ==
  ALOCAL(4) \o PASS

\* COPY ... FROM STDIN, the payload, the end of the copy and its result
CopyFrom ==
  X("copy") \o AS("PGRES_COPY_IN") \o CL \o PUTDATA \o PUTEND
  \o GETRES \o AS("PGRES_COMMAND_OK") \o CL \o FREE

test_transit_msgpack_copy_from ==
  FOPEN \o MALLOC \o FCLOSE \o AREAD \o CopyFrom
  \o X("select") \o AS("PGRES_TUPLES_OK") \o AN(3)
  \o AV(0, <<"_id", "name", "age">>) \o CL \o PASS

test_transit_json_copy_from ==
  FOPEN \o MALLOC \o FCLOSE \o AREAD \o CopyFrom
  \o X("count") \o AS("PGRES_TUPLES_OK") \o AV(0, <<"count">>) \o CL
  \o X("select") \o AS("PGRES_TUPLES_OK") \o AN(1)
  \o AV(0, <<"_id", "name", "age", "email", "active", "salary">>) \o CL \o PASS

\* the RUN_TEST lines of main, in order
Cases ==
  << test_connection, test_insert_and_query, test_where_clause, test_count_query,
     test_parameterized_query, test_json_records, test_load_sample_json,
     test_json_with_oid, test_transit_with_oid, test_transit_nest_one_full_record,
     test_nested_data_roundtrip, test_transit_json_format, test_transit_json_encoding,
     test_transit_msgpack_copy_from, test_transit_json_copy_from >>

NumCases == Len(Cases)

Step == Cases[cur][pos]

Running(o) == pc = "running" /\ Step.op = o

-----------------------------------------------------------------------------
(* The server's answers *)

Tuples == {"select", "select1", "count", "nest_one"}

\* the fields of the records the cases insert and select
Fields ==
  {"_id", "value", "name", "age", "active", "email", "salary", "tags", "metadata",
   "simple_array", "string_array", "nested_object", "array_of_objects"}

\* what an accepted statement of kind k may render other than the case
\* expects: nothing, or one of the cells it returns
BadFields(k) ==
  IF k = "select1" THEN {"none", "test"}
  ELSE IF k = "count" THEN {"none", "count"}
  ELSE IF k \in Tuples THEN {"none"} \cup Fields
  ELSE {"none"}

\* the status a statement of kind k returns when the server accepts it
SuccessStatus(k) ==
  IF k \in Tuples THEN "PGRES_TUPLES_OK"
  ELSE IF k = "copy" THEN "PGRES_COPY_IN"
  ELSE "PGRES_COMMAND_OK"

\* the row counts an accepted statement of kind k may return: a filtered or
\* ordered SELECT over a table returns what the server finds, SELECT 1,
\* COUNT(*) and NEST_ONE return one row
RowCounts(k) ==
  IF k = "select" THEN 0..MaxRows
  ELSE IF k \in Tuples THEN {1}
  ELSE {0}

-----------------------------------------------------------------------------
(* xtdb_test.c: the test framework *)

\* the locals of a case die when it returns
LocalsReset ==
  /\ pos' = 1
  /\ res' = "none"
  /\ ntuples' = 0
  /\ inserted_count' = 0
  /\ stmt_failed' = FALSE
  /\ fp' = "none"
  /\ bytes_read' = "none"
  /\ bad' = "none"
  /\ result' = 1

\* the fields PQresultErrorField gives of an error result, by their PG_DIAG_ names
DiagFields == {"SEVERITY", "SQLSTATE", "MESSAGE_PRIMARY", "MESSAGE_DETAIL"}

\* printf("  FAIL: %s\n", msg): the message literal of the assertion and nothing
\* of the PGresult
AssertDiagnostic == {"msg"}

\* RUN_TEST of the next case: printf("Running test: %s...\n", #name), if there is one
NextRunning == IF cur < NumCases THEN <<"Running test">> ELSE <<>>

\* the case returns to main, whose next line is the next RUN_TEST, or PQfinish
CaseReturns ==
  /\ IF cur < NumCases
       THEN /\ cur' = cur + 1
            /\ invoked' = Append(invoked, cur + 1)
            /\ pc' = "running"
       ELSE /\ cur' = cur
            /\ invoked' = invoked
            /\ pc' = "finishing"
  /\ LocalsReset

\* ASSERT as it would be if a false condition ended the run instead of the case
AssertFailsEndsRun ==
  /\ tests_failed' = tests_failed + 1
  /\ tests_passed' = tests_passed
  /\ pc' = "finishing"
  /\ UNCHANGED <<cur, invoked>>
  /\ out' = <<"FAIL">>
  /\ diag' = AssertDiagnostic
  /\ LocalsReset
  /\ UNCHANGED <<notRunner, conn, finish_count, exit_status, live, setting,
                 last_stmt, fp_open, heap, copy_in>>

\* ASSERT, ASSERT_EQ_STR, ASSERT_EQ_INT with a false condition:
\* printf FAIL, (*failed)++, return
AssertFails ==
  /\ out' = <<"FAIL">> \o NextRunning
  /\ diag' = AssertDiagnostic
  /\ tests_failed' = tests_failed + 1
  /\ tests_passed' = tests_passed
  /\ CaseReturns
  /\ UNCHANGED <<notRunner, conn, finish_count, exit_status, live, setting,
                 last_stmt, fp_open, heap, copy_in>>

\* the statement after a step that does not return
Advance(n) ==
  /\ pos' = pos + n
  /\ UNCHANGED <<pc, cur, tests_passed, tests_failed, invoked, out, diag>>

\* ASSERT as it would be if a true condition incremented *passed
AssertHoldsCounts ==
  /\ pos' = pos + 1
  /\ tests_passed' = tests_passed + 1
  /\ UNCHANGED <<pc, cur, tests_failed, invoked, out, diag>>
  /\ UNCHANGED <<notRunner, conn, finish_count, exit_status, res, ntuples, live,
                 setting, last_stmt, stmt_failed, inserted_count, fp_open,
                 heap, copy_in, result, fp, bytes_read, bad>>

\* an ASSERT whose condition holds
AssertHolds ==
  /\ Advance(1)
  /\ UNCHANGED <<notRunner, conn, finish_count, exit_status, res, ntuples, live,
                 setting, last_stmt, stmt_failed, inserted_count, fp_open,
                 heap, copy_in, result, fp, bytes_read, bad>>

\* the process dies of a signal raised by the program itself (SIGSEGV)
Crashes ==
  /\ pc' = "crashed"
  /\ UNCHANGED <<notRunner, conn, finish_count, cur, pos, tests_passed,
                 tests_failed, exit_status, invoked, out, diag, res, ntuples, live,
                 setting, last_stmt, stmt_failed, inserted_count, fp_open,
                 heap, copy_in, result, fp, bytes_read, bad>>

\* PASS(): printf PASS, (*passed)++, and the case's closing brace
Pass ==
  /\ Running("pass")
  /\ out' = <<"PASS">> \o NextRunning
  /\ diag' = diag
  /\ tests_passed' = tests_passed + 1
  /\ tests_failed' = tests_failed
  /\ CaseReturns
  /\ UNCHANGED <<notRunner, conn, finish_count, exit_status, live, setting,
                 last_stmt, fp_open, heap, copy_in>>

\* res = PQexec(conn, ...) or PQexecParams(conn, ...)
Exec ==
  /\ Running("exec")
  /\ \E ok \in BOOLEAN : \E n \in RowCounts(Step.a) : \E b \in BadFields(Step.a) :
       /\ res' = IF ok THEN SuccessStatus(Step.a) ELSE "PGRES_FATAL_ERROR"
       /\ ntuples' = IF ok THEN n ELSE 0
       /\ bad' = IF ok THEN b ELSE "none"
       /\ stmt_failed' = (stmt_failed \/ ~ok)
       /\ setting' = IF ok /\ Step.a = "set" THEN "transit"
                     ELSE IF ok /\ Step.a = "reset" THEN "default"
                     ELSE setting
       \* a new PQexec ends a copy that is still in progress
       /\ copy_in' = (ok /\ Step.a = "copy")
  /\ live' = live + 1
  /\ last_stmt' = Step.a
  /\ Advance(1)
  /\ UNCHANGED <<notRunner, conn, finish_count, exit_status, inserted_count,
                 fp_open, heap, result, fp, bytes_read>>

\* ASSERT(PQresultStatus(res) == ..., ...)
AssertStatus ==
  /\ Running("assert_status")
  /\ IF res = Step.a THEN AssertHolds ELSE AssertFails

\* ASSERT(PQntuples(res) == n, ...), ASSERT_EQ_INT(PQntuples(res), n, ...)
AssertNtuples ==
  /\ Running("assert_ntuples")
  /\ IF ntuples = Step.a THEN AssertHolds ELSE AssertFails

\* ASSERT_EQ_STR(PQgetvalue(res, r, c), ...) and ASSERT(strstr(PQgetvalue(res, r, c), ...)):
\* the cell's content is the server's; PQgetvalue of a row the result does not
\* have is NULL, and strcmp / strstr / printf("%s") of NULL is undefined
AssertCell ==
  /\ Running("assert_cell")
  /\ IF Step.a < ntuples
       THEN IF bad = Step.f THEN AssertFails ELSE AssertHolds
       ELSE Crashes \/ AssertFails

\* ASSERT(PQgetvalue(res, r, c) != NULL, ...)
AssertNotNull ==
  /\ Running("assert_notnull")
  /\ IF Step.a < ntuples THEN AssertHolds ELSE AssertFails

\* ASSERT(strstr(transit_buf, ...) != NULL, ...) on the buffer built by the case
AssertLocal ==
  /\ Running("assert_local")
  /\ AssertHolds

\* PQclear(res)
Clear ==
  /\ Running("clear")
  /\ live' = live - 1
  /\ Advance(1)
  /\ UNCHANGED <<notRunner, conn, finish_count, exit_status, res, ntuples, setting,
                 last_stmt, stmt_failed, inserted_count, fp_open, heap,
                 copy_in, result, fp, bytes_read, bad>>

\* if (PQresultStatus(set_res) == PGRES_COMMAND_OK) { PQclear(set_res); }
ClearIfOk ==
  /\ Running("clear_if_ok")
  /\ live' = IF res = "PGRES_COMMAND_OK" THEN live - 1 ELSE live
  /\ Advance(1)
  /\ UNCHANGED <<notRunner, conn, finish_count, exit_status, res, ntuples, setting,
                 last_stmt, stmt_failed, inserted_count, fp_open, heap,
                 copy_in, result, fp, bytes_read, bad>>

\* fp = fopen(...): the file may be missing
Fopen ==
  /\ Running("fopen")
  /\ \E ok \in BOOLEAN :
       /\ fp' = IF ok THEN "open" ELSE "NULL"
       /\ fp_open' = IF ok THEN fp_open + 1 ELSE fp_open
  /\ Advance(1)
  /\ UNCHANGED <<notRunner, conn, finish_count, exit_status, res, ntuples, live,
                 setting, last_stmt, stmt_failed, inserted_count, heap,
                 copy_in, result, bytes_read, bad>>

\* ASSERT(fp != NULL, ...): fp is the handle just opened, or NULL
AssertFp ==
  /\ Running("assert_fp")
  /\ IF fp # "NULL" THEN AssertHolds ELSE AssertFails

\* fclose(fp)
Fclose ==
  /\ Running("fclose")
  /\ fp_open' = fp_open - 1
  /\ Advance(1)
  /\ UNCHANGED <<notRunner, conn, finish_count, exit_status, res, ntuples, live,
                 setting, last_stmt, stmt_failed, inserted_count, heap,
                 copy_in, result, fp, bytes_read, bad>>

\* malloc(...) of the buffer the file is read into, and fread(...) into it:
\* fread returns file_size, or less when the file cannot be read in full
Malloc ==
  /\ Running("malloc")
  /\ heap' = heap + 1
  /\ bytes_read' \in {"full", "short"}
  /\ Advance(1)
  /\ UNCHANGED <<notRunner, conn, finish_count, exit_status, res, ntuples, live,
                 setting, last_stmt, stmt_failed, inserted_count, fp_open,
                 copy_in, result, fp, bad>>

\* free(...)
Free ==
  /\ Running("free")
  /\ heap' = heap - 1
  /\ Advance(1)
  /\ UNCHANGED <<notRunner, conn, finish_count, exit_status, res, ntuples, live,
                 setting, last_stmt, stmt_failed, inserted_count, fp_open,
                 copy_in, result, fp, bytes_read, bad>>

\* ASSERT(bytes_read == file_size, ...)
AssertRead ==
  /\ Running("assert_read")
  /\ IF bytes_read = "full" THEN AssertHolds ELSE AssertFails

\* the head of a load loop: the fixture holds another record, or it is at its end
LoopHead ==
  /\ Running("loop_head")
  /\ \/ inserted_count < MaxRecords /\ Advance(1)
     \/ Advance(Step.a)
  /\ UNCHANGED <<notRunner, conn, finish_count, exit_status, res, ntuples, live,
                 setting, last_stmt, stmt_failed, inserted_count, fp_open,
                 heap, copy_in, result, fp, bytes_read, bad>>

\* inserted_count++ and the next iteration
LoopBack ==
  /\ Running("loop_back")
  /\ inserted_count' = inserted_count + 1
  /\ Advance(0 - Step.a)
  /\ UNCHANGED <<notRunner, conn, finish_count, exit_status, res, ntuples, live,
                 setting, last_stmt, stmt_failed, fp_open, heap, copy_in,
                 result, fp, bytes_read, bad>>

\* ASSERT_EQ_INT(inserted_count, 3, ...)
AssertCount ==
  /\ Running("assert_count")
  /\ IF inserted_count = Step.a THEN AssertHolds ELSE AssertFails

\* result = PQputCopyData(conn, ...)
PutCopyData ==
  /\ Running("putcopydata")
  /\ \E r \in {1, -1} : result' = r
  /\ Advance(1)
  /\ UNCHANGED <<notRunner, conn, finish_count, exit_status, res, ntuples, live,
                 setting, last_stmt, stmt_failed, inserted_count, fp_open,
                 heap, copy_in, fp, bytes_read, bad>>

\* result = PQputCopyEnd(conn, NULL): when it succeeds the copy is over
PutCopyEnd ==
  /\ Running("putcopyend")
  /\ \E r \in {1, -1} :
       /\ result' = r
       /\ copy_in' = IF r = 1 THEN FALSE ELSE copy_in
  /\ Advance(1)
  /\ UNCHANGED <<notRunner, conn, finish_count, exit_status, res, ntuples, live,
                 setting, last_stmt, stmt_failed, inserted_count, fp_open,
                 heap, fp, bytes_read, bad>>

\* ASSERT(result == 1, ...)
AssertResult ==
  /\ Running("assert_result")
  /\ IF result = 1 THEN AssertHolds ELSE AssertFails

\* res = PQgetResult(conn): the result of the COPY
GetResult ==
  /\ Running("getresult")
  /\ \E ok \in BOOLEAN :
       /\ res' = IF ok THEN "PGRES_COMMAND_OK" ELSE "PGRES_FATAL_ERROR"
       /\ stmt_failed' = (stmt_failed \/ ~ok)
  /\ ntuples' = 0
  /\ bad' = "none"
  /\ live' = live + 1
  /\ Advance(1)
  /\ UNCHANGED <<notRunner, conn, finish_count, exit_status, setting, last_stmt,
                 inserted_count, fp_open, heap, copy_in, result, fp, bytes_read>>

-----------------------------------------------------------------------------
(* xtdb_test.c: main *)

\* main as it would be with return tests_failed;
ExitCodeIsCount(failed) == failed

\* return tests_failed > 0 ? 1 : 0;
ExitCode(failed) == IF failed > 0 THEN 1 ELSE 0

\* PQconnectdb, and the return 1 of a failed connection
MainConnect ==
  /\ pc = "start"
  /\ \/ /\ conn' = "open"
        /\ pc' = "running"
        /\ invoked' = <<1>>
        /\ out' = <<"Running test">>
        /\ diag' = diag
        /\ UNCHANGED <<notRunner, finish_count, exit_status>>
     \/ /\ conn' = "finished"
        /\ finish_count' = finish_count + 1
        /\ exit_status' = 1
        /\ pc' = "exited"
        /\ UNCHANGED <<invoked, out, diag>>
  /\ UNCHANGED <<notRunner, cur, pos, tests_passed, tests_failed, res, ntuples,
                 live, setting, last_stmt, stmt_failed, inserted_count,
                 fp_open, heap, copy_in, result, fp, bytes_read, bad>>

\* PQfinish(conn), the tally, and main's return
MainFinish ==
  /\ pc = "finishing"
  /\ conn' = "finished"
  /\ finish_count' = finish_count + 1
  /\ exit_status' = ExitCode(tests_failed)
  /\ pc' = "exited"
  /\ UNCHANGED <<notRunner, cur, pos, tests_passed, tests_failed, invoked, out, diag, res,
                 ntuples, live, setting, last_stmt, stmt_failed,
                 inserted_count, fp_open, heap, copy_in, result, fp, bytes_read, bad>>

\* SIGINT or SIGTERM: main installs no handler, the default action ends the process
MainSignal ==
  /\ pc \in {"start", "running", "finishing"}
  /\ pc' = "killed"
  /\ UNCHANGED <<notRunner, conn, finish_count, cur, pos, tests_passed,
                 tests_failed, exit_status, invoked, out, diag, res, ntuples, live,
                 setting, last_stmt, stmt_failed, inserted_count, fp_open,
                 heap, copy_in, result, fp, bytes_read, bad>>

RunnerInit ==
  /\ pc = "start"
  /\ conn = "none"
  /\ finish_count = 0
  /\ cur = 1
  /\ pos = 1
  /\ tests_passed = 0
  /\ tests_failed = 0
  /\ exit_status = -1
  /\ invoked = <<>>
  /\ out = <<>>
  /\ diag = {}
  /\ res = "none"
  /\ ntuples = 0
  /\ live = 0
  /\ setting = "default"
  /\ last_stmt = "none"
  /\ stmt_failed = FALSE
  /\ inserted_count = 0
  /\ fp = "none"
  /\ bytes_read = "none"
  /\ bad = "none"
  /\ fp_open = 0
  /\ heap = 0
  /\ copy_in = FALSE
  /\ result = 1

RunnerNext ==
  \/ MainConnect
  \/ Exec
  \/ AssertStatus
  \/ AssertNtuples
  \/ AssertCell
  \/ AssertNotNull
  \/ AssertLocal
  \/ Clear
  \/ ClearIfOk
  \/ Fopen
  \/ AssertFp
  \/ Fclose
  \/ Malloc
  \/ Free
  \/ AssertRead
  \/ LoopHead
  \/ LoopBack
  \/ AssertCount
  \/ PutCopyData
  \/ PutCopyEnd
  \/ AssertResult
  \/ GetResult
  \/ Pass
  \/ MainFinish
  \/ MainSignal

-----------------------------------------------------------------------------
(* trades.c *)

EXIT_SUCCESS == 0
EXIT_DB_CONNECTION_ERROR == 1
EXIT_QUERY_ERROR == 2
EXIT_MEMORY_ERROR == 4
EXIT_INVALID_ARGS == 5

\* the count main passes to insert_trades_batch
TradeCount == 3

\* the server's answer to a statement: success, an error result, or an error
\* result with the connection lost
Outcomes == {"ok", "error", "lost"}

\* PQclear calls on a result whose status is not the expected one: the one at
\* the end of handle_db_error and the one of the caller that follows it
ErrorPathClears == 2

\* a second PQclear of a PGresult is a double free: the process goes on with a
\* corrupted heap, or the allocator aborts it
AfterDoubleClear == {"continue", "abort"}

Max(a, b) == IF a > b THEN a ELSE b

\* res = PQexec / PQexecParams(...); if the status is not the expected one:
\* handle_db_error(conn, res, ...); PQclear(res); return false; otherwise
\* PQclear(res); return true -- the common body of begin_transaction,
\* commit_transaction, rollback_transaction, insert_trade, get_trades_over_quantity
Statement(o, ub, name, row, ok_pc, ok_ret, ok_txn, fail_pc, fail_ret) ==
  /\ sent' = Append(sent, [stmt |-> name, row |-> row, ok |-> (o = "ok")])
  /\ global_conn' = IF o = "lost" THEN "BAD" ELSE global_conn
  /\ txn' = IF o = "ok" THEN ok_txn ELSE IF o = "lost" THEN "idle" ELSE txn
  /\ IF o = "ok"
       THEN /\ max_clears' = Max(max_clears, 1)
            /\ t_pc' = ok_pc
            /\ batch_ret' = ok_ret
       ELSE /\ max_clears' = Max(max_clears, ErrorPathClears)
            /\ IF ErrorPathClears > 1 /\ ub = "abort"
                 THEN t_pc' = "aborted" /\ batch_ret' = batch_ret
                 ELSE t_pc' = fail_pc /\ batch_ret' = fail_ret

\* disconnect_db, called by cleanup
DisconnectDb ==
  IF global_conn # "NULL"
    THEN conn_finished' = conn_finished + 1 /\ global_conn' = "NULL"
    ELSE UNCHANGED <<conn_finished, global_conn>>

\* main: atexit(cleanup), signal(...), getopt_long; -? and an unknown option return
TradesArgs ==
  /\ t_pc = "args"
  /\ \E a \in {"run", "help", "invalid"} :
       IF a = "run"
         THEN t_pc' = "connect" /\ UNCHANGED <<exit_code, conn_finished, global_conn>>
         ELSE /\ exit_code' = IF a = "help" THEN EXIT_SUCCESS ELSE EXIT_INVALID_ARGS
              /\ t_pc' = "exited"
              /\ DisconnectDb
  /\ UNCHANGED <<notTrades, shutdown_requested, t_i, sent, batch_ret, txn, max_clears>>

\* connect_db, and main's return EXIT_DB_CONNECTION_ERROR
ConnectDb ==
  /\ t_pc = "connect"
  /\ \/ /\ global_conn' = "OK"
        /\ t_pc' = "create"
        /\ UNCHANGED <<conn_finished, exit_code>>
     \/ /\ conn_finished' = conn_finished + 1
        /\ global_conn' = "NULL"
        /\ exit_code' = EXIT_DB_CONNECTION_ERROR
        /\ t_pc' = "exited"
  /\ UNCHANGED <<notTrades, shutdown_requested, t_i, sent, batch_ret, txn, max_clears>>

\* main: the three trade_create calls and all_trades_valid
CreateTrades ==
  /\ t_pc = "create"
  /\ \E all_trades_valid \in BOOLEAN :
       IF all_trades_valid
         THEN t_pc' = "begin" /\ UNCHANGED exit_code
         ELSE t_pc' = "leave" /\ exit_code' = EXIT_MEMORY_ERROR
  /\ UNCHANGED <<notTrades, global_conn, conn_finished, shutdown_requested, t_i, sent,
                 batch_ret, txn, max_clears>>

\* insert_trades_batch up to its loop: the checks and begin_transaction
BatchBegin ==
  /\ t_pc = "begin"
  /\ t_i' = 0
  /\ IF global_conn # "OK" \/ TradeCount = 0
       THEN /\ batch_ret' = "false"
            /\ t_pc' = "after_batch"
            /\ UNCHANGED <<sent, global_conn, txn, max_clears>>
       ELSE \E o \in Outcomes : \E ub \in AfterDoubleClear :
              Statement(o, ub, "BEGIN", 0, "iter", batch_ret, "open",
                        "after_batch", "false")
  /\ UNCHANGED <<notTrades, conn_finished, shutdown_requested, exit_code>>

\* insert_trades_batch: the for condition and the shutdown_requested check
BatchIter ==
  /\ t_pc = "iter"
  /\ t_pc' = IF t_i >= TradeCount THEN "commit"
             ELSE IF shutdown_requested # 0 THEN "rollback"
             ELSE "insert"
  /\ UNCHANGED <<notTrades, global_conn, conn_finished, shutdown_requested, t_i, sent,
                 batch_ret, exit_code, txn, max_clears>>

\* insert_trades_batch: insert_trade(conn, trades[i]) and ++i
BatchInsert ==
  /\ t_pc = "insert"
  /\ IF global_conn # "OK"
       THEN /\ t_pc' = "rollback"
            /\ UNCHANGED <<sent, global_conn, txn, max_clears, batch_ret, t_i>>
       ELSE \E o \in Outcomes : \E ub \in AfterDoubleClear :
              /\ Statement(o, ub, "INSERT", t_i + 1, "iter", batch_ret, txn,
                           "rollback", batch_ret)
              /\ t_i' = IF o = "ok" THEN t_i + 1 ELSE t_i
  /\ UNCHANGED <<notTrades, conn_finished, shutdown_requested, exit_code>>

\* insert_trades_batch: rollback_transaction(conn); return false
BatchRollback ==
  /\ t_pc = "rollback"
  /\ IF global_conn # "OK"
       THEN /\ batch_ret' = "false"
            /\ t_pc' = "after_batch"
            /\ UNCHANGED <<sent, global_conn, txn, max_clears>>
       ELSE \E o \in Outcomes : \E ub \in AfterDoubleClear :
              Statement(o, ub, "ROLLBACK", 0, "after_batch", "false", "idle",
                        "after_batch", "false")
  /\ UNCHANGED <<notTrades, conn_finished, shutdown_requested, t_i, exit_code>>

\* insert_trades_batch: return commit_transaction(conn)
BatchCommit ==
  /\ t_pc = "commit"
  /\ IF global_conn # "OK"
       THEN /\ batch_ret' = "false"
            /\ t_pc' = "after_batch"
            /\ UNCHANGED <<sent, global_conn, txn, max_clears>>
       ELSE \E o \in Outcomes : \E ub \in AfterDoubleClear :
              Statement(o, ub, "COMMIT", 0, "after_batch", "true", "idle",
                        "after_batch", "false")
  /\ UNCHANGED <<notTrades, conn_finished, shutdown_requested, t_i, exit_code>>

\* main: what follows insert_trades_batch
AfterBatch ==
  /\ t_pc = "after_batch"
  /\ IF batch_ret = "true"
       THEN t_pc' = "query" /\ UNCHANGED exit_code
       ELSE t_pc' = "leave" /\ exit_code' = EXIT_QUERY_ERROR
  /\ UNCHANGED <<notTrades, global_conn, conn_finished, shutdown_requested, t_i, sent,
                 batch_ret, txn, max_clears>>

\* get_trades_over_quantity(global_conn, 100)
GetTradesOverQuantity ==
  /\ t_pc = "query"
  /\ IF global_conn # "OK"
       THEN /\ t_pc' = "leave"
            /\ UNCHANGED <<sent, global_conn, txn, max_clears, batch_ret>>
       ELSE \E o \in Outcomes : \E ub \in AfterDoubleClear :
              Statement(o, ub, "SELECT", 0, "leave", batch_ret, txn,
                        "leave", batch_ret)
  /\ UNCHANGED <<notTrades, conn_finished, shutdown_requested, t_i, exit_code>>

\* main: trade_destroy, return exit_code; and cleanup, run by exit
TradesLeave ==
  /\ t_pc = "leave"
  /\ t_pc' = "exited"
  /\ DisconnectDb
  /\ UNCHANGED <<notTrades, shutdown_requested, t_i, sent, batch_ret, exit_code, txn,
                 max_clears>>

\* signal_handler, on a SIGINT or SIGTERM delivered while the process runs
SignalHandler ==
  /\ t_pc \notin {"exited", "aborted"}
  /\ shutdown_requested' = 1
  /\ UNCHANGED <<notTrades, t_pc, global_conn, conn_finished, t_i, sent, batch_ret,
                 exit_code, txn, max_clears>>

TradesInit ==
  /\ t_pc = "args"
  /\ global_conn = "NULL"
  /\ conn_finished = 0
  /\ shutdown_requested = 0
  /\ t_i = 0
  /\ sent = <<>>
  /\ batch_ret = "none"
  /\ exit_code = EXIT_SUCCESS
  /\ txn = "idle"
  /\ max_clears = 0

TradesNext ==
  \/ TradesArgs
  \/ ConnectDb
  \/ CreateTrades
  \/ BatchBegin
  \/ BatchIter
  \/ BatchInsert
  \/ BatchRollback
  \/ BatchCommit
  \/ AfterBatch
  \/ GetTradesOverQuantity
  \/ TradesLeave
  \/ SignalHandler

-----------------------------------------------------------------------------
(* xtdb_test.c: get_clean_table *)

\* the modulus of rand() % 10000
RandMod == 10000

\* the clock advances at most this many seconds over a run
MaxTicks == 2
\* get_clean_table is called at most this many times in a run
MaxCalls == 3
\* rand() returns q * RandMod + r for q in 0..MaxRandQuot, r in 0..MaxRandRem
MaxRandQuot == 1
MaxRandRem == 1

RandValues == {q * RandMod + r : q \in 0..MaxRandQuot, r \in 0..MaxRandRem}

\* snprintf(table, sizeof(table), "test_table_%ld_%d", time(NULL), rand() % 10000)
TableName(secs, rnd) ==
  "test_table_" \o ToString(secs) \o "_" \o ToString(rnd % RandMod)

\* a case calls get_clean_table()
GetCleanTable ==
  /\ Len(names) < MaxCalls
  /\ \E rnd \in RandValues : names' = Append(names, TableName(now, rnd))
  /\ UNCHANGED <<notNamer, now>>

\* a second of wall-clock time passes between two calls
Tick ==
  /\ now < MaxTicks
  /\ now' = now + 1
  /\ UNCHANGED <<notNamer, names>>

NamerInit ==
  /\ now = 0
  /\ names = <<>>

NamerNext ==
  \/ GetCleanTable
  \/ Tick

-----------------------------------------------------------------------------
(* xtdb_test.c: test_json_with_oid, the loop that splits file_content *)

\* the bytes a fixture is made of: the two braces, the quote, the backslash,
\* and a blank for every other byte
Chars == {"{", "}", "\"", "\\", " "}

\* sizeof(json_object)
JsonObjectSize == 8192

\* a run of JsonObjectSize blanks, read as one piece of the buffer
Blanks == "blanks"

\* the pieces file_content is made of
Pieces == Chars \cup {Blanks}

\* the number of bytes of a piece, and of a buffer
Width(c) == IF c = Blanks THEN JsonObjectSize ELSE 1

RECURSIVE Bytes(_)
Bytes(s) == IF s = <<>> THEN 0 ELSE Width(Head(s)) + Bytes(Tail(s))

\* the largest number of pieces of file_content
MaxLen == 7

\* the number of records test_json_with_oid expects to insert
ExpectedRecords == 3

ScanState ==
  [brace_count |-> brace_count, obj_start |-> obj_start, in_string |-> in_string,
   escape_next |-> escape_next, emit |-> <<>>]

\* the iteration as it would be if a backslash set escape_next outside a string
\* literal as well as inside one
SplitStepEscapesAnywhere(st, c, i) ==
  IF st.escape_next THEN [st EXCEPT !.escape_next = FALSE]
  ELSE IF c = "\\" THEN [st EXCEPT !.escape_next = TRUE]
  ELSE IF c = "\"" THEN [st EXCEPT !.in_string = ~st.in_string]
  ELSE IF st.in_string THEN st
  ELSE IF c = "{"
    THEN [st EXCEPT !.obj_start = IF st.brace_count = 0 THEN i ELSE st.obj_start,
                    !.brace_count = st.brace_count + 1]
  ELSE IF c = "}"
    THEN IF st.brace_count - 1 = 0 /\ st.obj_start >= 0
           THEN [st EXCEPT !.brace_count = 0,
                           !.obj_start = -1,
                           !.emit = << <<st.obj_start, i - st.obj_start + 1>> >>]
           ELSE [st EXCEPT !.brace_count = st.brace_count - 1]
  ELSE st

\* one iteration of for (long i = 0; i < fsize; i++) on the byte c = file_content[i];
\* emit is the span <<obj_start, obj_len>> copied to json_object, if any
SplitStep(st, c, i) ==
  IF st.escape_next THEN [st EXCEPT !.escape_next = FALSE]
  ELSE IF c = "\\" /\ st.in_string THEN [st EXCEPT !.escape_next = TRUE]
  ELSE IF c = "\"" THEN [st EXCEPT !.in_string = ~st.in_string]
  ELSE IF st.in_string THEN st
  ELSE IF c = "{"
    THEN [st EXCEPT !.obj_start = IF st.brace_count = 0 THEN i ELSE st.obj_start,
                    !.brace_count = st.brace_count + 1]
  ELSE IF c = "}"
    THEN IF st.brace_count - 1 = 0 /\ st.obj_start >= 0
           THEN [st EXCEPT !.brace_count = 0,
                           !.obj_start = -1,
                           !.emit = << <<st.obj_start, i - st.obj_start + 1>> >>]
           ELSE [st EXCEPT !.brace_count = st.brace_count - 1]
  ELSE st

\* what the loop leaves alone
splitFrame == <<tradeVars, namerVars, encVars, pc, conn, finish_count, cur, pos, exit_status,
                invoked, out, diag, res, ntuples, live, setting, last_stmt, stmt_failed, fp,
                bytes_read, bad,
                fp_open, heap, copy_in, result>>

\* strncpy(json_object, file_content + obj_start, obj_len) and
\* json_object[obj_len] = '\0' write obj_len + 1 bytes into json_object
Overflows(span) == span[2] + 1 > JsonObjectSize

\* a write past the end of json_object is a stack buffer overflow: it goes
\* unnoticed, or the process is aborted, or the locals next to json_object
\* hold other values afterwards
AfterOverflow == {"unnoticed", "abort", "clobber"}

\* the body of if (brace_count == 0 && obj_start >= 0): the span is copied to
\* json_object and inserted with PQexecParams, then
\* ASSERT(PQresultStatus(res) == PGRES_COMMAND_OK, ...), PQclear, inserted_count++
CopyAndInsert(st, ub) ==
  /\ IF ub = "clobber"
       THEN brace_count' \in 0..1 /\ in_string' \in BOOLEAN
       ELSE brace_count' = st.brace_count /\ in_string' = st.in_string
  /\ IF ub = "abort"
       THEN s_pc' = "crashed" /\ UNCHANGED <<inserted_count, tests_failed>>
       ELSE \/ inserted_count' = inserted_count + 1 /\ UNCHANGED <<tests_failed, s_pc>>
            \/ /\ tests_failed' = tests_failed + 1
               /\ s_pc' = "returned"
               /\ UNCHANGED inserted_count

\* the loop reads the next piece; over a run of blanks only the first iteration
\* can change anything (it clears escape_next)
ScanByte ==
  /\ s_pc = "scan"
  /\ Len(file_content) < MaxLen
  /\ \E c \in Pieces :
       LET st == SplitStep(ScanState, IF c = Blanks THEN " " ELSE c, Bytes(file_content))
       IN /\ file_content' = Append(file_content, c)
          /\ obj_start' = st.obj_start
          /\ escape_next' = st.escape_next
          /\ json_objects' = json_objects \o st.emit
          /\ IF st.emit = <<>>
               THEN /\ brace_count' = st.brace_count
                    /\ in_string' = st.in_string
                    /\ UNCHANGED <<inserted_count, tests_failed, s_pc>>
               ELSE IF Overflows(st.emit[1])
                 THEN \E ub \in AfterOverflow : CopyAndInsert(st, ub)
                 ELSE CopyAndInsert(st, "unnoticed")
  /\ UNCHANGED <<splitFrame, tests_passed>>

\* i == fsize: free(file_content); ASSERT_EQ_INT(inserted_count, 3, ...)
ScanEnd ==
  /\ s_pc = "scan"
  /\ IF inserted_count = ExpectedRecords
       THEN s_pc' = "verify" /\ UNCHANGED tests_failed
       ELSE s_pc' = "returned" /\ tests_failed' = tests_failed + 1
  /\ UNCHANGED <<splitFrame, tests_passed, inserted_count, file_content, brace_count,
                 obj_start, in_string, escape_next, json_objects>>

\* the rest of the case: the two queries, the assertions on what the server
\* returns, and PASS()
SplitVerify ==
  /\ s_pc = "verify"
  /\ s_pc' = "returned"
  /\ \/ tests_passed' = tests_passed + 1 /\ UNCHANGED tests_failed
     \/ tests_failed' = tests_failed + 1 /\ UNCHANGED tests_passed
  /\ UNCHANGED <<splitFrame, inserted_count, file_content, brace_count,
                 obj_start, in_string, escape_next, json_objects>>

SplitInit ==
  /\ s_pc = "scan"
  /\ file_content = <<>>
  /\ brace_count = 0
  /\ obj_start = -1
  /\ in_string = FALSE
  /\ escape_next = FALSE
  /\ json_objects = <<>>

SplitNext ==
  \/ ScanByte
  \/ ScanEnd
  \/ SplitVerify

-----------------------------------------------------------------------------
(* xtdb_test.c: build_transit_string, build_transit_json *)

\* the largest number of key/value pairs of a record handed to the encoder
MaxPairs == 2

\* sizeof(transit_buf) in test_transit_json_encoding
TransitBufSize == 512

\* a buffer too small for any pair
SmallBufSize == 4

\* strings are sequences of bytes
Keys == {<<"_", "i", "d">>, <<"n">>}
Values == {<<"\"", "a", "\"">>, <<"4", "2">>, <<"t", "r", "u", "e">>}

Min(a, b) == IF a < b THEN a ELSE b

\* snprintf(buf, size, ...) of the formatted bytes s: at most size - 1 of them
\* are written (and the terminating NUL)
Snprintf(size, s) == IF size = 0 THEN <<>> ELSE SubSeq(s, 1, Min(Len(s), size - 1))

\* snprintf(buf, buf_size, "\"~:%s\",%s", key, value)
build_transit_string(size, key, value) ==
  Snprintf(size, <<"\"", "~", ":">> \o key \o <<"\"", ",">> \o value)

\* strcat(buf, "[\"^ \""); num_pairs and the variadic arguments are not read
build_transit_json(b, size, num_pairs, args) ==
  b \o <<"[", "\"", "^", " ", "\"">>

\* the caller prepares one more key/value pair
AddPair ==
  /\ e_pc = "args"
  /\ Len(pairs) < MaxPairs
  /\ \E k \in Keys : \E v \in Values : pairs' = Append(pairs, <<k, v>>)
  /\ UNCHANGED <<notEncoder, e_pc, buf, buf_size>>

\* build_transit_string(buf, buf_size, key, value) on the last pair
BuildTransitString ==
  /\ e_pc = "args"
  /\ pairs # <<>>
  /\ buf_size' \in {SmallBufSize, TransitBufSize}
  /\ buf' = build_transit_string(buf_size', pairs[Len(pairs)][1], pairs[Len(pairs)][2])
  /\ e_pc' = "string_built"
  /\ UNCHANGED <<notEncoder, pairs>>

\* build_transit_json(buf, sizeof(buf), n, k1, v1, ..., kn, vn) on an empty buf
BuildTransitJson ==
  /\ e_pc = "args"
  /\ buf_size' = TransitBufSize
  /\ buf' = build_transit_json(buf, buf_size', Len(pairs), pairs)
  /\ e_pc' = "json_built"
  /\ UNCHANGED <<notEncoder, pairs>>

EncoderInit ==
  /\ e_pc = "args"
  /\ pairs = <<>>
  /\ buf = <<>>
  /\ buf_size = TransitBufSize

EncoderNext ==
  \/ AddPair
  \/ BuildTransitString
  \/ BuildTransitJson

-----------------------------------------------------------------------------
(* The specifications: one per program part, over the same initial state *)

Init == RunnerInit /\ TradesInit /\ NamerInit /\ SplitInit /\ EncoderInit

\* xtdb_test.c: main and the 15 cases
Spec == Init /\ [][RunnerNext]_vars

\* trades.c: main
SpecTrades == Init /\ [][TradesNext]_vars

\* xtdb_test.c: get_clean_table over a run
SpecNamer == Init /\ [][NamerNext]_vars

\* xtdb_test.c: test_json_with_oid at the level of the fixture's bytes
SpecSplit == Init /\ [][SplitNext]_vars

\* the transit text encoder
SpecEncoder == Init /\ [][EncoderNext]_vars

-----------------------------------------------------------------------------
(* Properties *)

\* the case indices 1..n, in registration order
InOrder(n) == [k \in 1..n |-> k]

\* C1: the runner's exit status is 0 if and only if the connection was
\* established and tests_failed is 0 after all cases ran, and it is 1 when the
\* connection failed or at least one case failed.
C1_ExitStatus ==
  pc = "exited" =>
    /\ exit_status = 0 <=> (invoked # <<>> /\ tests_failed = 0)
    /\ exit_status = 1 <=> (invoked = <<>> \/ tests_failed > 0)
    /\ invoked # <<>> => invoked = InOrder(NumCases)

\* C1, witness: a run that connected, had cases pass and cases fail, and exited 1
C1_Witness ==
  /\ pc = "exited"
  /\ invoked = InOrder(NumCases)
  /\ tests_passed > 0
  /\ tests_failed > 1
  /\ exit_status = 1

\* C2 as claimed: a case that has set fallback_output_format to transit issues
\* RESET before it returns, on every return path: when main is between two
\* cases and the setting is still transit, the last statement sent was the RESET.
C2_ResetOnEveryReturnPath ==
  (pc \in {"running", "finishing"} /\ pos = 1 /\ setting = "transit")
    => last_stmt = "reset"

C4_ReleasedBeforeNextStatement ==
  Running("exec") => live = 0

\* C5 as claimed: when the process has ended, on whatever path, the session it
\* opened has been closed, by exactly one PQfinish.
C5_SessionClosedOnce ==
  (pc \in {"exited", "killed", "crashed"} /\ conn # "none")
    => (conn = "finished" /\ finish_count = 1)

\* C6 as claimed: the names get_clean_table returns within one run are pairwise
\* distinct.
C6_NamesDistinct ==
  \A j, k \in 1..Len(names) : j # k => names[j] # names[k]

IsInsert(e) == e.stmt = "INSERT"
Inserts == SelectSeq(sent, IsInsert)
HasStmt(name) == \E k \in 1..Len(sent) : sent[k].stmt = name
RowFailed == \E k \in 1..Len(Inserts) : ~Inserts[k].ok
\* insert_trades_batch has returned, or the process has ended inside it
BatchOver ==
  /\ sent # <<>>
  /\ t_pc \in {"after_batch", "query", "leave", "exited", "aborted"}

\* C7 as claimed: BEGIN is sent first, the rows are inserted in array order, at
\* the first row whose insert fails no later row is inserted, ROLLBACK is sent
\* and false is returned; COMMIT is sent only after all count rows were
\* inserted, and true is returned only if COMMIT succeeded.
C7_TransactionalBatch ==
  /\ sent # <<>> => sent[1].stmt = "BEGIN"
  /\ \A k \in 1..Len(Inserts) : Inserts[k].row = k
  /\ \A k \in 1..Len(Inserts) : ~Inserts[k].ok => k = Len(Inserts)
  /\ (BatchOver /\ RowFailed) => (HasStmt("ROLLBACK") /\ batch_ret = "false")
  /\ HasStmt("COMMIT") =>
       (Len(Inserts) = TradeCount /\ \A k \in 1..Len(Inserts) : Inserts[k].ok)
  /\ batch_ret = "true" =>
       \E k \in 1..Len(sent) : sent[k].stmt = "COMMIT" /\ sent[k].ok

\* C8 as claimed: a case in which a statement returned a non-success status
\* records a FAIL and returns without PASS: no case reaches PASS() after one of
\* its statements failed.
C8_StatementFailureFailsCase ==
  Running("pass") => ~stmt_failed

(* The brace and string structure of a buffer, by recursive descent: a buffer *)
(* is well formed when it is blanks and objects; an object is a "{", then     *)
(* blanks, string literals and objects, then a "}"; a string literal is a     *)
(* quote, then bytes other than quote and backslash and escapes of a quote or *)
(* a backslash, then a quote. Positions are those of the pieces, from 1.      *)

\* the position of the quote that closes the literal whose content starts at i, or 0
RECURSIVE StrEnd(_, _)
StrEnd(s, i) ==
  IF i > Len(s) THEN 0
  ELSE IF s[i] = "\"" THEN i
  ELSE IF s[i] = "\\"
    THEN IF i + 1 <= Len(s) /\ s[i + 1] \in {"\"", "\\"} THEN StrEnd(s, i + 2) ELSE 0
  ELSE StrEnd(s, i + 1)

\* the position of the "}" that closes the object whose content starts at i, or 0
RECURSIVE ObjEnd(_, _)
ObjEnd(s, i) ==
  IF i > Len(s) THEN 0
  ELSE IF s[i] = "}" THEN i
  ELSE IF s[i] = "{"
    THEN LET e == ObjEnd(s, i + 1) IN IF e = 0 THEN 0 ELSE ObjEnd(s, e + 1)
  ELSE IF s[i] = "\""
    THEN LET e == StrEnd(s, i + 1) IN IF e = 0 THEN 0 ELSE ObjEnd(s, e + 1)
  ELSE IF s[i] = "\\" THEN 0
  ELSE ObjEnd(s, i + 1)

\* the top-level objects of s from position i on, as spans <<offset, length>>
\* in bytes with offsets from 0, and whether s is well formed from i on
RECURSIVE TopLevel(_, _)
TopLevel(s, i) ==
  IF i > Len(s) THEN [ok |-> TRUE, spans |-> <<>>]
  ELSE IF s[i] \in {" ", Blanks} THEN TopLevel(s, i + 1)
  ELSE IF s[i] = "{"
    THEN LET e == ObjEnd(s, i + 1)
         IN IF e = 0 THEN [ok |-> FALSE, spans |-> <<>>]
            ELSE LET r == TopLevel(s, e + 1)
                     from == Bytes(SubSeq(s, 1, i - 1))
                     upto == Bytes(SubSeq(s, 1, e))
                 IN [ok |-> r.ok, spans |-> << <<from, upto - from>> >> \o r.spans]
  ELSE [ok |-> FALSE, spans |-> <<>>]

WellFormed(s) == TopLevel(s, 1).ok
ObjectSpans(s) == TopLevel(s, 1).spans

\* C9 as claimed: for a buffer that is a concatenation of well-formed top-level
\* objects separated by blanks, the scan yields exactly one span per top-level
\* object, in order, from its opening brace through its matching closing
\* brace; an empty buffer yields nothing and braces inside string literals do
\* not count.
C9_SplitterSpans ==
  WellFormed(file_content) => json_objects = ObjectSpans(file_content)

\* the depth of the braces of s outside string literals after position i,
\* starting from depth d; -1 once a "}" has no "{" to match
RECURSIVE Depth(_, _, _)
Depth(s, i, d) ==
  IF i > Len(s) THEN d
  ELSE IF s[i] = "\""
    THEN LET e == StrEnd(s, i + 1) IN IF e = 0 THEN d ELSE Depth(s, e + 1, d)
  ELSE IF s[i] = "{" THEN Depth(s, i + 1, d + 1)
  ELSE IF s[i] = "}" THEN IF d = 0 THEN -1 ELSE Depth(s, i + 1, d - 1)
  ELSE Depth(s, i + 1, d)

\* s ends with an unclosed "{" or holds a "}" with no matching "{"
Unbalanced(s) == Depth(s, 1, 0) # 0

\* C10 as claimed: when the buffer json_with_oid has scanned is unbalanced, the
\* case records a FAIL and does not PASS.
C10_UnbalancedFails ==
  (s_pc = "returned" /\ Unbalanced(file_content)) => tests_passed = 0

\* the steps that are an ASSERT, ASSERT_EQ_STR or ASSERT_EQ_INT
AssertOps ==
  {"assert_status", "assert_ntuples", "assert_cell", "assert_notnull",
   "assert_local", "assert_fp", "assert_read", "assert_count", "assert_result"}

\* the running case is at an assertion, and the step is the assertion holding
\* (the case goes on) or failing (the case returns)
AtAssertion == pc = "running" /\ Step.op \in AssertOps
AssertionSucceeds == AtAssertion /\ pc' = "running" /\ cur' = cur /\ pos' = pos + 1
AssertionFails == AtAssertion /\ (cur' # cur \/ pc' = "finishing")

\* C11 as claimed: each assertion increments the pass counter when it succeeds
\* and the fail counter when it fails.
C11_AssertionIncrementsPass ==
  [][/\ AssertionSucceeds => tests_passed' = tests_passed + 1
     /\ AssertionFails => tests_failed' = tests_failed + 1]_vars

\* C11, amended: an assertion that succeeds changes neither counter; the pass
\* counter is incremented only by PASS(), by one, once the case's assertions
\* have all succeeded; an assertion that fails increments the fail counter by
\* one, leaves the pass counter alone and ends the case.
C11_AssertionCounters ==
  [][/\ AssertionSucceeds =>
          (tests_passed' = tests_passed /\ tests_failed' = tests_failed)
     /\ AssertionFails =>
          (tests_failed' = tests_failed + 1 /\ tests_passed' = tests_passed)
     /\ tests_passed' # tests_passed =>
          (Running("pass") /\ tests_passed' = tests_passed + 1)
     /\ tests_failed' # tests_failed => AssertionFails]_vars

\* C11, witness: the second case is past an assertion that succeeded, and the
\* pass counter holds only the first case's PASS()
C11_Witness ==
  /\ pc = "running"
  /\ cur = 2
  /\ pos > 1
  /\ Cases[cur][pos - 1].op \in AssertOps
  /\ tests_passed = 1
  /\ tests_failed = 0

\* the cases that load a fixture file: json_with_oid, transit_with_oid,
\* transit_nest_one_full_record, transit_msgpack_copy_from, transit_json_copy_from
FixtureCases == {8, 9, 10, 14, 15}

\* C12 as claimed: a case that loads a fixture reaches PASS() only when the file
\* was opened and, where it is read with fread, read in full; and after a short
\* read it sends no INSERT and no COPY to the server.
C12_FixtureErrorFails ==
  /\ (Running("pass") /\ cur \in FixtureCases)
       => (fp = "open" /\ bytes_read # "short")
  /\ (Running("exec") /\ cur \in FixtureCases /\ Step.a \in {"insert", "copy"})
       => bytes_read # "short"

\* the fields of alice that json_with_oid verifies: the scalars, tags, metadata
AliceFields ==
  {"_id", "name", "age", "active", "email", "salary", "tags", "metadata"}

\* C14 as claimed: transit_msgpack_copy_from reaches PASS() only if the result
\* it verified renders every field of alice's full field set as expected and
\* holds three rows.
C14_MsgpackVerifiesFullRecord ==
  (Running("pass") /\ cur = 14) => (bad \notin AliceFields /\ ntuples = 3)


\* ---------------------------------------------------------------------------
\* C15
\* ---------------------------------------------------------------------------
Verdicts == {"PASS", "FAIL"}

\* C15: every case prints "Running test" before it runs and exactly one verdict
\* line (PASS or FAIL) after it, before the next case's "Running test" line: a
\* case that is running has printed its "Running test" line, directly after the
\* previous case's single verdict, and a case that has ended, however it ended,
\* has printed one verdict as the last line.
C15_OneVerdictPerCase ==
  /\ pc = "running" =>
       /\ out[Len(out)] = "Running test"
       /\ Len(out) = (IF cur = 1 THEN 1 ELSE 2)
       /\ cur > 1 => out[1] \in Verdicts
  /\ (pc \in {"finishing", "exited", "crashed"} /\ invoked # <<>>) =>
       (Len(out) = 1 /\ out[1] \in Verdicts)


\* ---------------------------------------------------------------------------
\* C16
\* ---------------------------------------------------------------------------
\* the harness meets a server error: an assertion on the status of a result
\* finds PGRES_FATAL_ERROR where it expects a success status
StatusAssertionMeetsError ==
  /\ Running("assert_status")
  /\ res = "PGRES_FATAL_ERROR"
  /\ Step.a # "PGRES_FATAL_ERROR"

\* C16: whenever a statement returns a non-success status, the diagnostic that
\* is printed surfaces the severity, the SQLSTATE and the primary message of the
\* error (every error result carries these three), in the harness as in the
\* trade utility.
C16_DiagnosticSurfacesError ==
  [][StatusAssertionMeetsError =>
       (DiagFields \ {"MESSAGE_DETAIL"}) \subseteq diag']_vars


\* ---------------------------------------------------------------------------
\* C17
\* ---------------------------------------------------------------------------
\* the loop reads one more piece of file_content; c is its first byte
ReadsByte == s_pc = "scan" /\ Len(file_content') = Len(file_content) + 1
LastByte(s) == IF s[Len(s)] = Blanks THEN " " ELSE s[Len(s)]

\* C17: in the splitter (1) escape_next is set only by a backslash read while
\* in_string is true, (2) the byte after such a backslash is skipped: in_string,
\* the depth, obj_start and the objects cut so far stay as they are, (3) while
\* in_string no brace is counted and no object is cut, (4) an escaped quote
\* inside a string literal does not end the string, and (5) a backslash outside
\* a string changes nothing, so the byte after it is read as any other.
C17_EscapeHandling ==
  [][ReadsByte =>
       LET c == LastByte(file_content')
       IN /\ escape_next' => (c = "\\" /\ in_string /\ ~escape_next)
          /\ escape_next =>
               /\ ~escape_next'
               /\ UNCHANGED <<in_string, brace_count, obj_start, json_objects>>
          /\ in_string => UNCHANGED <<brace_count, obj_start, json_objects>>
          /\ (escape_next /\ c = "\"") => (in_string /\ in_string')
          /\ (~in_string /\ c = "\\") =>
               /\ ~escape_next'
               /\ UNCHANGED <<in_string, brace_count, obj_start, json_objects>>]_vars

\* an escaped quote has been read inside a string literal of an object, the
\* string is still open, and the braces read in it since were not counted
C17_Witness ==
  /\ file_content = <<"{", "\"", "\\", "\"", "}", "\\">>
  /\ in_string
  /\ escape_next
  /\ brace_count = 1


\* ---------------------------------------------------------------------------
\* C18
\* ---------------------------------------------------------------------------
\* "~:<key>",<value>
PairText(p) == <<"\"", "~", ":">> \o p[1] \o <<"\"">> \o <<",">> \o p[2]

\* ["^ " followed by each pair in order, and the closing ]
RECURSIVE PairsText(_)
PairsText(ps) ==
  IF ps = <<>> THEN <<>> ELSE <<",">> \o PairText(Head(ps)) \o PairsText(Tail(ps))
Envelope(ps) == <<"[", "\"", "^", " ", "\"">> \o PairsText(ps) \o <<"]">>

\* C18: build_transit_json called with num_pairs = n emits the envelope opener,
\* all n pairs in order as "~:<key>",<value>, and the closing ]; and
\* build_transit_string, given room in the buffer, emits exactly
\* "~:<key>",<value>.
C18_EncoderEmitsAllPairs ==
  /\ e_pc = "json_built" => buf = Envelope(pairs)
  /\ (e_pc = "string_built" /\ buf_size = TransitBufSize) =>
       buf = PairText(pairs[Len(pairs)])


\* ---------------------------------------------------------------------------
\* C19
\* ---------------------------------------------------------------------------
\* the run has ended after the connection was established: main has returned,
\* or is about to, or the process died inside a case
RunEnded == pc \in {"finishing", "exited", "crashed"} /\ invoked # <<>>

\* C19: at the end of any run in which the connection was established,
\* tests_passed + tests_failed is the number of cases (15); while a case runs,
\* every case before it has incremented exactly one of the two counters once.
C19_CountersSumToCases ==
  /\ RunEnded => tests_passed + tests_failed = NumCases
  /\ pc = "running" => tests_passed + tests_failed = cur - 1


\* ---------------------------------------------------------------------------
\* C20
\* ---------------------------------------------------------------------------
\* C20: a bulk-copy case does not return while the session is in copy-in
\* state: whenever a case starts, and when the last case has returned, the
\* session is not in copy-in state.
C20_CopyEndedBeforeReturn ==
  (pc = "finishing" \/ (pc = "running" /\ pos = 1)) => ~copy_in


\* ---------------------------------------------------------------------------
\* C21
\* ---------------------------------------------------------------------------
\* C21: in the trade utility every result handle a statement returned is
\* released exactly once: once a statement has been sent, no result has been
\* passed to PQclear more than once (nor left without a PQclear).
C21_ReleasedExactlyOnce ==
  sent # <<>> => max_clears = 1


\* ---------------------------------------------------------------------------
\* C22
\* ---------------------------------------------------------------------------
\* a statement of that name was sent and returned the expected status
Succeeded(name) == \E k \in 1..Len(sent) : sent[k].stmt = name /\ sent[k].ok

\* C22: whenever insert_trades_batch has returned after its BEGIN succeeded,
\* the session has no open transaction: a COMMIT or a ROLLBACK has succeeded.
C22_NoOpenTransaction ==
  (t_pc = "after_batch" /\ Succeeded("BEGIN")) =>
    /\ txn = "idle"
    /\ Succeeded("COMMIT") \/ Succeeded("ROLLBACK")


\* ---------------------------------------------------------------------------
\* C23
\* ---------------------------------------------------------------------------
\* the loop has left for ROLLBACK because of the flag, not of a failed INSERT:
\* every statement sent so far succeeded
StoppedByFlag == t_pc = "rollback" /\ \A k \in 1..Len(sent) : sent[k].ok

\* C23: in insert_trades_batch (1) a signal sets shutdown_requested, (2) if the
\* flag is set when iteration i begins, no INSERT is sent for trade i, and the
\* function goes on to ROLLBACK, (3) it then sends ROLLBACK, sends no COMMIT
\* and returns false, and (4) once the loop has ended COMMIT is sent whatever
\* the flag is.
C23_ShutdownStopsBatch ==
  [][/\ shutdown_requested' # shutdown_requested => shutdown_requested' = 1
     /\ (t_pc = "iter" /\ t_i < TradeCount /\ shutdown_requested # 0 /\ t_pc' # t_pc) =>
          (t_pc' = "rollback" /\ sent' = sent)
     /\ (StoppedByFlag /\ t_pc' # t_pc) =>
          /\ t_pc' = "after_batch"
          /\ batch_ret' = "false"
          /\ Len(sent') = Len(sent) + 1
          /\ sent'[Len(sent')].stmt = "ROLLBACK"
          /\ ~HasStmt("COMMIT")
     /\ (t_pc = "iter" /\ t_i >= TradeCount /\ t_pc' # t_pc) => t_pc' = "commit"
     /\ (t_pc = "commit" /\ global_conn = "OK" /\ t_pc' # t_pc) =>
          sent'[Len(sent')].stmt = "COMMIT"]_vars


\* ---------------------------------------------------------------------------
\* C24
\* ---------------------------------------------------------------------------
\* C24: every fixture file handle and every heap buffer a case acquires is
\* released before the case returns: whenever a case starts, and when the last
\* case has returned, no FILE is open and no malloc'ed buffer is unfreed.
C24_FixtureResourcesReleased ==
  (pc = "finishing" \/ (pc = "running" /\ pos = 1)) => (fp_open = 0 /\ heap = 0)


\* ---------------------------------------------------------------------------
\* C25
\* ---------------------------------------------------------------------------
\* the largest value of int obj_start, int obj_len
IntMax == 2147483647

\* C25: every span the splitter emits fits its destination: obj_len bytes and
\* the terminating NUL fit the json_object buffer, and obj_start and obj_len
\* are within the range of int.
C25_SpanFitsBuffer ==
  \A k \in 1..Len(json_objects) :
    /\ json_objects[k][2] + 1 <= JsonObjectSize
    /\ json_objects[k][1] <= IntMax
    /\ json_objects[k][2] <= IntMax

====
